---- MODULE Spec2Model ----
(***************************************************************************)
(* Model of src/src/iv_wikipedia_etl.py: the tumbling-window extraction    *)
(* loop of IvWikipediaData (_get_api_data, _fetch_tumbling_window_data,    *)
(* _get_api_params), the replace-load of _save_to_duckdb and the           *)
(* try/except of the __main__ block.                                       *)
(*                                                                         *)
(* Time is counted in whole seconds relative to 00:00:00 of the target     *)
(* date; a formatted timestamp is the tuple <<day, hour, minute, second>>  *)
(* that strftime("%Y-%m-%dT%H:%M:%SZ") prints, day being the offset from   *)
(* the target date.                                                        *)
(***************************************************************************)
EXTENDS Integers, Sequences, FiniteSets, TLC

VARIABLES
    config,       \* ApiConfig of the pipeline object: limit, tumbling_window_size
    input_date,   \* argument of _get_api_data, <<year, month, day>>
    pc,           \* position of the process
    cursor,       \* current_window_start_time
    df,           \* self.df
    params,       \* parameters of the request in flight (or of the last request)
    response,     \* last response received in this run
    requests,     \* history: parameters of every request issued in this run
    error,        \* kind of the exception raised in this run, "none" if none
    exitStatus,   \* exit status of the process, -1 while it runs
    saveCalled,   \* history: _save_to_duckdb was invoked in this run
    store,        \* the DuckDB database file: schema iv and table iv.wiki_edits
    store0,       \* history: the store as it was when this run started
    run,          \* number of the current run of the pipeline
    batches       \* history: the record lists merged into self.df in this run

vars == <<config, input_date, pc, cursor, df, params, response, requests,
          error, exitStatus, saveCalled, store, store0, run, batches>>

-----------------------------------------------------------------------------
(* Bounds of the model *)

\* runs of the program against the same database file
MaxRuns == 2

\* loop iterations of one run; only a window size <= 0 reaches it
MaxWindows == 3

(* Program constants *)

\* datetime.timedelta(days=1), in seconds
DaySeconds == 86400

\* the status code of a successful response
StatusOk == 200

-----------------------------------------------------------------------------
(* Inputs *)

\* tumbling_window_size values: non-positive, dividing the day, not dividing
\* it, one second short of the day, the whole day, longer than the day
WindowSizes == {-1, 0, 30000, 43200, 50000, 86399, 86400, 100000}

\* config.limit values
Limits == {1, 2}

\* input_date values: a date, and a string strptime rejects (February 30th)
InputDates == {<<2024, 10, 31>>, <<2024, 2, 30>>}

\* rows of the change feed, with the thirteen columns of the data frame
r1 == [type |-> "edit", ns |-> 0, title |-> "Main Page", user |-> "Alice",
       userid |-> 7, bot |-> FALSE, oldlen |-> 10, newlen |-> 12,
       timestamp |-> "2024-10-31T00:00:05Z", comment |-> "typo",
       minor |-> TRUE, anon |-> FALSE, new |-> FALSE]

r2 == [type |-> "new", ns |-> 2, title |-> "User:Bob", user |-> "Bob",
       userid |-> 9, bot |-> TRUE, oldlen |-> 0, newlen |-> 40,
       timestamp |-> "2024-10-31T13:20:00Z", comment |-> "created",
       minor |-> FALSE, anon |-> FALSE, new |-> TRUE]

\* record lists a response body may carry
Batches == {<<>>, <<r1>>, <<r2, r1>>}

\* responses of the API: a status code, whether the body parses as
\* json()['query']['recentchanges'], and the records it holds
Responses ==
    [status : {StatusOk, 503}, wellformed : {TRUE}, records : Batches]
    \cup [status : {StatusOk}, wellformed : {FALSE}, records : {<<>>}]

NoResponse == [status |-> 0, wellformed |-> FALSE, records |-> <<>>]

NoParams == [rcstart |-> <<0, 0, 0, 0>>, rcend |-> <<0, 0, 0, 0>>, rclimit |-> 0]

EmptyStore == [schema |-> FALSE, exists |-> FALSE, rows |-> <<>>]

-----------------------------------------------------------------------------
(* Pure helpers *)

Min(a, b) == IF a <= b THEN a ELSE b

IsLeap(y) == (y % 4 = 0 /\ y % 100 # 0) \/ y % 400 = 0

DaysInMonth(y, m) ==
    IF m = 2 THEN (IF IsLeap(y) THEN 29 ELSE 28)
    ELSE IF m \in {4, 6, 9, 11} THEN 30 ELSE 31

\* datetime.datetime.strptime(input_date, "%Y-%m-%d") succeeds
DateParses(d) ==
    /\ d[2] \in 1..12
    /\ d[3] >= 1
    /\ d[3] <= DaysInMonth(d[1], d[2])

\* end_time = start_time + 1 day - 1 second, start_time being second 0
EndTime == DaySeconds - 1

\* t.strftime("%Y-%m-%dT%H:%M:%SZ")
Strftime(t) ==
    <<t \div DaySeconds, (t % DaySeconds) \div 3600, (t % 3600) \div 60, t % 60>>

\* the instant a formatted timestamp denotes
ToSeconds(s) == s[1] * DaySeconds + s[2] * 3600 + s[3] * 60 + s[4]

-----------------------------------------------------------------------------
(* IvWikipediaData *)

\* _get_api_params: the parameter dictionary of one API call
GetApiParams(rcstart, rcend, limit) ==
    [action |-> "query", format |-> "json", list |-> "recentchanges",
     rcstart |-> rcstart, rcend |-> rcend, rclimit |-> limit,
     rcprop |-> "title|timestamp|userid|user|comment|flags|sizes"]

\* params = self._get_api_params(end_time, start_time)
FetchParams(start_time, end_time, limit) == GetApiParams(end_time, start_time, limit)

\* while current_window_start_time < end_time
LoopContinues(c) == c < EndTime

\* current_window_start_time += timedelta(seconds=tumbling_window_size)
Advance(c, size) == c + size

\* WindowEnd without the "- 1 second": a window would end where the next begins
WindowEnd_NoStepBack(c) == Min(c, EndTime)

\* min(current_window_start_time - 1 second, end_time), c the advanced cursor
WindowEnd(c) == Min(c - 1, EndTime)

\* FetchError with the saturation test written >= instead of ==
FetchError_AtLeast(resp, limit) ==
    IF resp.status # StatusOk THEN "RequestFailed"
    ELSE IF ~resp.wellformed THEN "MalformedResponse"
    ELSE IF Len(resp.records) >= limit THEN "WindowSaturated"
    ELSE "none"

\* the exception _fetch_tumbling_window_data raises on a response, "none" if
\* it returns the window's data frame
FetchError(resp, limit) ==
    IF resp.status # StatusOk THEN "RequestFailed"
    ELSE IF ~resp.wellformed THEN "MalformedResponse"
    ELSE IF Len(resp.records) = limit THEN "WindowSaturated"
    ELSE "none"

\* pd.concat([self.df, window_df], ignore_index=True)
Concat(d, window_df) == d \o window_df

\* NextPc with the exception swallowed: the error is logged and control goes on
NextPc_Swallow(exc, normal) == normal

\* an exception leaves the method and the try block of __main__; without one
\* control goes on to the next statement
NextPc(exc, normal) == IF exc = "none" THEN normal ELSE "exit"

\* exit status of the process: SystemExit(<message>) is no Exception, passes
\* "except Exception" and ends the process with status 1; every Exception is
\* caught and logged, and the script then runs off its end
ExitStatusOf(exc) ==
    IF exc \in {"RequestFailed", "WindowSaturated"} THEN 1 ELSE 0

-----------------------------------------------------------------------------
(* _save_to_duckdb: the four statements, each committed when it returns *)

\* CREATE SCHEMA IF NOT EXISTS iv
CreateSchemaIfNotExists(s) == [s EXCEPT !.schema = TRUE]

\* DropTableIfExists with the statement left out
DropTableIfExists_Skipped(s) == s

\* DROP TABLE IF EXISTS iv.wiki_edits
DropTableIfExists(s) == [s EXCEPT !.exists = FALSE, !.rows = <<>>]

\* CREATE TABLE IF NOT EXISTS iv.wiki_edits (...)
CreateTableIfNotExists(s) ==
    IF s.exists THEN s ELSE [s EXCEPT !.exists = TRUE, !.rows = <<>>]

\* SELECT type, title, user, userid, timestamp, comment
ProjectRow(r) ==
    [type |-> r.type, title |-> r.title, user |-> r.user, userid |-> r.userid,
     timestamp |-> r.timestamp, comment |-> r.comment]

Project(d) == [i \in 1..Len(d) |-> ProjectRow(d[i])]

\* INSERT INTO iv.wiki_edits SELECT ... FROM df
InsertSelect(s, d) == [s EXCEPT !.rows = @ \o Project(d)]

-----------------------------------------------------------------------------
(* State machine *)

\* state of a process that has constructed ApiConfig and IvWikipediaData
Fresh(c, d, s, n) ==
    /\ config = c
    /\ input_date = d
    /\ pc = "main"
    /\ cursor = 0
    /\ df = <<>>
    /\ params = NoParams
    /\ response = NoResponse
    /\ requests = <<>>
    /\ error = "none"
    /\ exitStatus = -1
    /\ saveCalled = FALSE
    /\ store = s
    /\ store0 = s
    /\ run = n
    /\ batches = <<>>

Configs == [limit : Limits, tumbling_window_size : WindowSizes]

\* the database file when the program is first started: absent, or holding
\* the table an earlier day's run published
InitialStores ==
    {EmptyStore, [schema |-> TRUE, exists |-> TRUE, rows |-> <<ProjectRow(r2)>>]}

Init ==
    \E c \in Configs, d \in InputDates, s \in InitialStores : Fresh(c, d, s, 1)

\* an exception of kind exc ends the run
Raise(exc) ==
    /\ error' = exc
    /\ pc' = NextPc(exc, pc)
    /\ exitStatus' = ExitStatusOf(exc)

\* __main__ calls _get_api_data(input_date): strptime, start_time, end_time
CallGetApiData ==
    /\ pc = "main"
    /\ IF DateParses(input_date)
       THEN /\ pc' = "loop"
            /\ cursor' = 0
            /\ UNCHANGED <<error, exitStatus>>
       ELSE /\ Raise("ValueError")
            /\ UNCHANGED cursor
    /\ UNCHANGED <<config, input_date, df, params, response, requests,
                   saveCalled, store, store0, run, batches>>

\* one pass of the loop body up to requests.get: the window's bounds are
\* formatted and the request is issued
EmitWindow ==
    /\ pc = "loop"
    /\ LoopContinues(cursor)
    /\ Len(requests) < MaxWindows
    /\ LET rcend_str == Strftime(cursor)
           advanced == Advance(cursor, config.tumbling_window_size)
           rcstart_str == Strftime(WindowEnd(advanced))
           p == FetchParams(rcend_str, rcstart_str, config.limit)
       IN /\ cursor' = advanced
          /\ params' = p
          /\ requests' = Append(requests, p)
    /\ pc' = "fetch"
    /\ UNCHANGED <<config, input_date, df, response, error, exitStatus,
                   saveCalled, store, store0, run, batches>>

\* the response arrives: _fetch_tumbling_window_data raises or returns the
\* window's data frame, which the loop appends to self.df
ReceiveResponse ==
    /\ pc = "fetch"
    /\ \E resp \in Responses :
         LET exc == FetchError(resp, config.limit)
         IN /\ response' = resp
            /\ error' = exc
            /\ pc' = NextPc(exc, "loop")
            /\ exitStatus' = IF exc = "none" THEN exitStatus ELSE ExitStatusOf(exc)
            /\ df' = IF exc = "none" THEN Concat(df, resp.records) ELSE df
            /\ batches' = IF exc = "none" THEN Append(batches, resp.records) ELSE batches
    /\ UNCHANGED <<config, input_date, cursor, params, requests, saveCalled,
                   store, store0, run>>

\* the loop ends, _get_api_data returns self.df and __main__ calls
\* _save_to_duckdb with it
CallSaveToDuckdb ==
    /\ pc = "loop"
    /\ ~LoopContinues(cursor)
    /\ pc' = "connect"
    /\ saveCalled' = TRUE
    /\ UNCHANGED <<config, input_date, cursor, df, params, response, requests,
                   error, exitStatus, store, store0, run, batches>>

\* a step of _save_to_duckdb at position at: the statement succeeds, leaves
\* the store as after and goes on to next, or fails with a store-level
\* error and leaves the store untouched
SaveStep(at, after, next) ==
    /\ pc = at
    /\ \/ /\ store' = after
          /\ pc' = next
          /\ exitStatus' = IF next = "exit" THEN 0 ELSE exitStatus
          /\ UNCHANGED error
       \/ /\ Raise("StoreError")
          /\ UNCHANGED store
    /\ UNCHANGED <<config, input_date, cursor, df, params, response, requests,
                   saveCalled, store0, run, batches>>

\* duckdb.connect(database_path)
Connect == SaveStep("connect", store, "create_schema")

CreateSchema == SaveStep("create_schema", CreateSchemaIfNotExists(store), "drop_table")

DropTable == SaveStep("drop_table", DropTableIfExists(store), "create_table")

CreateTable == SaveStep("create_table", CreateTableIfNotExists(store), "insert")

Insert == SaveStep("insert", InsertSelect(store, df), "exit")

\* the program is started again on the same database file
Rerun ==
    /\ pc = "exit"
    /\ run < MaxRuns
    /\ \E c \in Configs, d \in InputDates :
         /\ config' = c
         /\ input_date' = d
    /\ pc' = "main"
    /\ cursor' = 0
    /\ df' = <<>>
    /\ params' = NoParams
    /\ response' = NoResponse
    /\ requests' = <<>>
    /\ error' = "none"
    /\ exitStatus' = -1
    /\ saveCalled' = FALSE
    /\ store0' = store
    /\ run' = run + 1
    /\ batches' = <<>>
    /\ UNCHANGED store

\* a caller that keeps the pipeline object after a run has ended (the
\* method returned and the table was published, or an exception was caught)
\* calls _get_api_data on the same object again: config and self.df are the
\* object's, nothing in _get_api_data assigns self.df before the loop
CallAgain ==
    /\ pc = "exit"
    /\ run < MaxRuns
    /\ \E d \in InputDates : input_date' = d
    /\ pc' = "main"
    /\ cursor' = 0
    /\ params' = NoParams
    /\ response' = NoResponse
    /\ requests' = <<>>
    /\ error' = "none"
    /\ exitStatus' = -1
    /\ saveCalled' = FALSE
    /\ store0' = store
    /\ run' = run + 1
    /\ batches' = <<>>
    /\ UNCHANGED <<config, df, store>>

Next ==
    \/ CallGetApiData
    \/ EmitWindow
    \/ ReceiveResponse
    \/ CallSaveToDuckdb
    \/ Connect
    \/ CreateSchema
    \/ DropTable
    \/ CreateTable
    \/ Insert
    \/ Rerun

Spec == Init /\ [][Next]_vars

\* the program's runs, and further calls of _get_api_data on one object
NextReuse ==
    \/ Next
    \/ CallAgain

SpecReuse == Init /\ [][NextReuse]_vars

-----------------------------------------------------------------------------
(* Properties *)

W == config.tumbling_window_size

\* the window of the i-th request of this run, in seconds
WinLo(i) == ToSeconds(requests[i].rcend)

WinHi(i) == ToSeconds(requests[i].rcstart)

\* seconds the closed range [rcend, rcstart] of the i-th window spans
Width(i) == WinHi(i) - WinLo(i) + 1

\* the loop of _get_api_data has run to its end in this run
LoopDone == saveCalled

FetchErrors == {"RequestFailed", "WindowSaturated", "MalformedResponse"}

\* the target table of a store: whether it exists, and its rows
TableOf(s) == [exists |-> s.exists, rows |-> s.rows]

\* C1: for a window size W > 0, the windows of one complete run of
\* _get_api_data, as closed ranges [rcend, rcstart], cover every second of
\* the target day exactly once.
C1_CoverDayExactlyOnce ==
    (W > 0 /\ LoopDone) =>
        \A s \in 0..EndTime :
            Cardinality({i \in 1..Len(requests) : WinLo(i) <= s /\ s <= WinHi(i)}) = 1

\* C2: for a window size W > 0, each window begins exactly one second after
\* the window before it ends: rcend of window i+1 = rcstart of window i + 1s.
C2_Contiguous ==
    W > 0 =>
        \A i \in 1..(Len(requests) - 1) : WinLo(i + 1) = WinHi(i) + 1

\* C2 witness: a run with W = 30000 has issued its three windows.
C2_Witness == W = 30000 /\ Len(requests) = 3

\* C3: for a window size W > 0, after a complete run every window but the
\* last spans exactly W seconds, and the last spans at most W seconds and
\* ends exactly at 23:59:59 of the target day.
C3_WidthsAndClip ==
    (W > 0 /\ LoopDone) =>
        /\ Len(requests) > 0
        /\ \A i \in 1..(Len(requests) - 1) : Width(i) = W
        /\ Width(Len(requests)) <= W
        /\ WinHi(Len(requests)) = EndTime

\* C4: in every request issued during a run rcend is not later than rcstart
\* and rclimit is the configured limit.
C4_ParamsOrdered ==
    \A i \in 1..Len(requests) :
        /\ WinLo(i) <= WinHi(i)
        /\ requests[i].rclimit = config.limit

\* C5: the saturation error is raised on a response if and only if the
\* response has status 200 and its batch holds exactly config.limit records.
C5_SaturatedIffLimit ==
    response # NoResponse =>
        ((error = "WindowSaturated") <=>
            (/\ response.status = StatusOk
             /\ response.wellformed
             /\ Len(response.records) = config.limit))

\* C5 witness: a status-200 response with exactly limit = 2 records arrived
\* after an earlier window had been merged.
C5_Witness ==
    /\ error = "WindowSaturated"
    /\ config.limit = 2
    /\ Len(response.records) = 2
    /\ Len(requests) = 2

\* C6: the step on which a fetch fails merges nothing and does not publish,
\* and once a fetch has failed the run issues no further request, merges
\* nothing, never invokes _save_to_duckdb and leaves the store alone.
C6_AbortOnFetchFailure ==
    [][ /\ (error = "none" /\ error' \in FetchErrors) =>
              (df' = df /\ store' = store /\ ~saveCalled' /\ pc' = "exit")
        /\ (error \in FetchErrors /\ run' = run) =>
              (/\ requests' = requests
               /\ df' = df
               /\ store' = store
               /\ ~saveCalled'
               /\ pc' = "exit") ]_vars

\* C6 witness: the second of three windows failed after the first had been
\* merged.
C6_Witness ==
    /\ error \in FetchErrors
    /\ W = 30000
    /\ Len(requests) = 2
    /\ Len(df) > 0

\* C7: when the process has ended, either the loop ran to its end and the
\* target table holds exactly the projected rows of this run, or the target
\* table is as it was before the run.
C7_AllOrNothing ==
    exitStatus # -1 =>
        \/ /\ LoopDone
           /\ error = "none"
           /\ store.exists
           /\ store.rows = Project(df)
        \/ TableOf(store) = TableOf(store0)

\* C8: after a successful _save_to_duckdb the target table holds exactly the
\* projected rows of the table just published, whatever it held before.
C8_FullReplace ==
    (pc = "exit" /\ saveCalled /\ error = "none") =>
        /\ store.schema
        /\ store.exists
        /\ store.rows = Project(df)

\* C8 witness: a second successful publish over a table that held other rows.
C8_Witness ==
    /\ pc = "exit"
    /\ saveCalled
    /\ error = "none"
    /\ run = 2
    /\ store0.exists
    /\ Len(store0.rows) > 0
    /\ store0.rows # Project(df)

\* C9: with a window size of zero or less no window is emitted and no
\* request is issued.
C9_NonPositiveRejected ==
    W <= 0 => Len(requests) = 0

\* C10: the process exits with status zero exactly when no error occurred
\* in the run, and then all windows were fetched and the publish completed.
C10_ExitStatus ==
    exitStatus # -1 =>
        /\ (exitStatus = 0) <=> (error = "none")
        /\ exitStatus = 0 => (LoopDone /\ store.rows = Project(df))

\* the concatenation of a sequence of record lists, in order
RECURSIVE Flatten(_)
Flatten(bs) == IF bs = <<>> THEN <<>> ELSE bs[1] \o Flatten(Tail(bs))

\* C11: for any sequence of _get_api_data calls on one pipeline object, the
\* table a call returns holds exactly the rows of the batches fetched in
\* that call, in window order, and no row of an earlier call.
C11_TableOfThisCallOnly ==
    LoopDone => df = Flatten(batches)

====
